---- MODULE Spec2Model ----
(***************************************************************************)
(* The resource / spore protocol of context-spore (src/src/lib.rs).        *)
(*                                                                         *)
(* A resource kind generated by impl_spore! has two owning forms over one  *)
(* RawContainer { ctx, rss }: the bound form $resource<'ctx> (container    *)
(* plus a lifetime tie to a context reference) and the detached form       *)
(* $spore (container alone, Send + Sync, panics when dropped).             *)
(*                                                                         *)
(* Every resource k has one cell for its bound value (res[k]) and one for  *)
(* its spore value (spo[k]); a conversion writes the cell of the result    *)
(* and forgets the cell of the source, as transmute_copy + forget do.      *)
(* Rust's ownership rules appear as guards: a by-value receiver needs a    *)
(* live value with no outstanding borrow, &self needs no outstanding &mut, *)
(* &mut self needs no outstanding borrow at all.                           *)
(***************************************************************************)
EXTENDS Integers, FiniteSets

VARIABLES
    res,       \* res[k]: the bound value of resource k ($resource<'ctx>)
    spo,       \* spo[k]: the spore value of resource k ($spore)
    shared,    \* shared[k]: outstanding &Resource views lent by sprout_ref
    muts,      \* muts[k]: outstanding &mut Resource views lent by sprout_mut
    current,   \* the context object the caller holds as &CurrentCtx
    halted,    \* the process has been terminated by a panic
    freed,     \* native handles released by the drop of a bound resource
    last,      \* the most recent operation: [op, k, outcome]
    born,      \* history: the container each resource was created with
    detached,  \* history: the bound value consumed by the latest sporulate
    lent,      \* history: the live spore has lent a view since its detachment
    thread,    \* thread[k]: the thread that holds the value of resource k
    detachedOn, \* history: the thread the latest sporulate ran on
    ty         \* ty[k]: the type of the value of resource k

vars == <<res, spo, shared, muts, current, halted, freed, last, born, detached,
          lent, thread, detachedOn, ty>>

\* ---------------------------------------------------------------- bounds
NumRes == 1        \* resources allocated
NumId == 2         \* distinct raw context identities
MaxShared == 2     \* outstanding shared views of one spore

Keys == 1 .. NumRes
\* One context object per identity, plus one more object that represents
\* the same logical context as object 1.
CtxObj == 1 .. (NumId + 1)
\* The thread a resource is created on and one other thread.
Threads == {"main", "worker"}
\* The resource kinds impl_spore! has been invoked for, and the kind each
\* resource belongs to.
Kinds == {"memory", "queue"}
KindOf(k) == IF k % 2 = 1 THEN "memory" ELSE "queue"

\* ------------------------------------------------------ values and helpers
\* AsRaw::as_raw: the raw identity of a context object.
as_raw(c) == ((c - 1) % NumId) + 1

\* RawContainer { ctx, rss }
RawContainer(ctx, rss) == [ctx |-> ctx, rss |-> rss]

\* The native handle the allocation of resource k returned.
HandleOf(k) == NumRes + 1 - k

\* $resource<'ctx>(RawContainer, PhantomData<&'ctx ()>): the container and
\* the context reference its lifetime is tied to.
Resource(raw, c) == [live |-> TRUE, raw |-> raw, via |-> c]

\* $spore(RawContainer)
Spore(raw) == [live |-> TRUE, raw |-> raw]

\* The two types impl_spore! generates for a kind.
ResourceType(kind) == [form |-> "resource", kind |-> kind]
SporeType(kind) == [form |-> "spore", kind |-> kind]

\* impl ContextResource for $resource: type Spore = $spore.
SporeOf(T) == SporeType(T.kind)

\* Variant: the spore is wired to the resource type of another kind.
ResourceOf_crossed(S) ==
    ResourceType(CHOOSE other \in Kinds : other # S.kind)

\* impl ContextSpore for $spore: type Resource<'ctx> = $resource<'ctx>.
ResourceOf(S) == ResourceType(S.kind)

\* A cell whose value has been moved out or destroyed.
NoResource == [live |-> FALSE, raw |-> RawContainer(0, 0), via |-> 0]
NoSpore == [live |-> FALSE, raw |-> RawContainer(0, 0)]

\* Variant: a copy that is one field short and leaves the handle zeroed.
transmute_copy_short(raw) == RawContainer(raw.ctx, 0)

\* std::mem::transmute_copy(&x.0): a bitwise copy of both fields.
transmute_copy(raw) == RawContainer(raw.ctx, raw.rss)

\* Variant: the identity check is compiled out.
assert_eq_ctx_off(s, c) == TRUE

\* Variant: the captured identity is compared with the context object
\* itself instead of with its extracted identity.
assert_eq_ctx_object(s, c) == s.raw.ctx = c

\* Variant: the check uses the identity of the context the resource was
\* bound through when it was detached, not that of the context supplied now.
assert_eq_ctx_stale(s, c) ==
    \E k \in Keys : spo[k] = s /\ s.raw.ctx = as_raw(detached[k].via)

\* Variant: the check also pins the spore to the thread that detached it.
assert_eq_ctx_thread(s, c) ==
    /\ s.raw.ctx = as_raw(c)
    /\ \A k \in Keys : spo[k] = s => thread[k] = detachedOn[k]

\* assert_eq!(self.0.ctx, as_raw(ctx)) of sprout / sprout_ref / sprout_mut.
assert_eq_ctx(s, c) == s.raw.ctx = as_raw(c)

\* Variant: detaching erases the captured identity with the lifetime tie.
sporulate_ans_erased(r) == Spore(RawContainer(0, r.raw.rss))

\* sporulate: let s = transmute_copy(&self.0); ...; $spore(s)
sporulate_ans(r) == Spore(transmute_copy(r.raw))

\* Variant: sporulate copies the container out of a resource it keeps.
sporulate_forget_keep(r) == r

\* sporulate: std::mem::forget(self) -- the bound value is gone, no drop runs.
sporulate_forget(r) == NoResource

\* sprout: let ans = transmute_copy(&self.0), typed Resource<'_> on ctx.
sprout_ans(s, c) == Resource(transmute_copy(s.raw), c)

\* Variant: sprout copies the container out of a spore it does not consume.
sprout_forget_keep(s) == s

\* sprout: std::mem::forget(self) -- the spore is gone, no drop runs.
sprout_forget(s) == NoSpore

\* Variant: the spore has an ordinary, empty destructor.
spore_drop_silent == "ok"

\* impl Drop for $spore: unreachable!("Never drop ContextSpore").
spore_drop == "panic"

\* Receiver `self`: the value is moved in, so nothing may borrow it.
by_value(k) == shared[k] = 0 /\ muts[k] = 0

\* Receiver `&'ctx self`: no exclusive borrow may be outstanding.
by_ref(k) == muts[k] = 0

\* Variant: sprout_mut declared on a shared receiver.
by_mut_shared(k) == muts[k] = 0

\* Receiver `&'ctx mut self`: no borrow at all may be outstanding.
by_mut(k) == shared[k] = 0 /\ muts[k] = 0

Op(op, k, outcome) == [op |-> op, k |-> k, outcome |-> outcome]

\* ------------------------------------------------------------------- Init
\* Every resource starts bound through some context object, its container
\* holding that context's identity and its own native handle.
Init ==
    /\ \E v \in [Keys -> CtxObj] :
          /\ res = [k \in Keys |-> Resource(RawContainer(as_raw(v[k]), HandleOf(k)), v[k])]
          /\ born = [k \in Keys |-> RawContainer(as_raw(v[k]), HandleOf(k))]
    /\ spo = [k \in Keys |-> NoSpore]
    /\ shared = [k \in Keys |-> 0]
    /\ muts = [k \in Keys |-> 0]
    /\ current \in CtxObj
    /\ halted = FALSE
    /\ freed = {}
    /\ last = Op("init", 0, "ok")
    /\ detached = [k \in Keys |-> NoResource]
    /\ lent = [k \in Keys |-> FALSE]
    /\ thread = [k \in Keys |-> "main"]
    /\ detachedOn = [k \in Keys |-> "main"]
    /\ ty = [k \in Keys |-> ResourceType(KindOf(k))]

\* ---------------------------------------------------------------- actions
\* Variant: sporulate copies the container but does not forget `self`, so
\* the bound value is dropped on return and its release runs.
Sporulate_dropping(k) ==
    /\ ~halted
    /\ res[k].live
    /\ spo' = [spo EXCEPT ![k] = Spore(transmute_copy(res[k].raw))]
    /\ res' = [res EXCEPT ![k] = NoResource]
    /\ freed' = freed \cup {res[k].raw.rss}
    /\ detached' = [detached EXCEPT ![k] = res[k]]
    /\ lent' = [lent EXCEPT ![k] = FALSE]
    /\ last' = Op("sporulate", k, "ok")
    /\ UNCHANGED <<shared, muts, current, halted, born>>
    /\ detachedOn' = [detachedOn EXCEPT ![k] = thread[k]]
    /\ UNCHANGED thread
    /\ ty' = [ty EXCEPT ![k] = SporeOf(@)]

\* Variant: sporulate asserts that the resource's context is the current one.
Sporulate_checked(k) ==
    /\ ~halted
    /\ res[k].live
    /\ IF res[k].raw.ctx = as_raw(current)
       THEN /\ spo' = [spo EXCEPT ![k] = Spore(transmute_copy(res[k].raw))]
            /\ res' = [res EXCEPT ![k] = NoResource]
            /\ detached' = [detached EXCEPT ![k] = res[k]]
            /\ lent' = [lent EXCEPT ![k] = FALSE]
            /\ last' = Op("sporulate", k, "ok")
            /\ UNCHANGED halted
       ELSE /\ halted' = TRUE
            /\ last' = Op("sporulate", k, "panic")
            /\ UNCHANGED <<res, spo, detached, lent>>
    /\ UNCHANGED <<shared, muts, current, freed, born>>
    /\ detachedOn' = [detachedOn EXCEPT ![k] = thread[k]]
    /\ UNCHANGED thread
    /\ ty' = [ty EXCEPT ![k] = IF last'.outcome = "ok" THEN SporeOf(@) ELSE @]

\* ContextResource::sporulate(self) -> Self::Spore
Sporulate(k) ==
    /\ ~halted
    /\ res[k].live
    /\ spo' = [spo EXCEPT ![k] = sporulate_ans(res[k])]
    /\ res' = [res EXCEPT ![k] = sporulate_forget(res[k])]
    /\ detached' = [detached EXCEPT ![k] = res[k]]
    /\ lent' = [lent EXCEPT ![k] = FALSE]
    /\ last' = Op("sporulate", k, "ok")
    /\ UNCHANGED <<shared, muts, current, halted, freed, born>>
    /\ detachedOn' = [detachedOn EXCEPT ![k] = thread[k]]
    /\ UNCHANGED thread
    /\ ty' = [ty EXCEPT ![k] = SporeOf(@)]

\* Variant: sprout moves the container out of the spore first and checks
\* the identity afterwards.
Sprout_move_first(k) ==
    /\ ~halted
    /\ spo[k].live
    /\ by_value(k)
    /\ res' = [res EXCEPT ![k] = sprout_ans(spo[k], current)]
    /\ spo' = [spo EXCEPT ![k] = sprout_forget(spo[k])]
    /\ lent' = [lent EXCEPT ![k] = FALSE]
    /\ ty' = [ty EXCEPT ![k] = ResourceOf(@)]
    /\ IF assert_eq_ctx(spo[k], current)
       THEN /\ last' = Op("sprout", k, "ok")
            /\ UNCHANGED halted
       ELSE /\ halted' = TRUE
            /\ last' = Op("sprout", k, "panic")
    /\ UNCHANGED <<shared, muts, current, freed, born, detached>>
    /\ UNCHANGED <<thread, detachedOn>>

\* Variant: the mismatch panic of sprout does not take the spore down with
\* it, so it can be contained like that of the borrowing forms.
Sprout_contained(k) ==
    /\ ~halted
    /\ spo[k].live
    /\ by_value(k)
    /\ IF assert_eq_ctx(spo[k], current)
       THEN /\ res' = [res EXCEPT ![k] = sprout_ans(spo[k], current)]
            /\ spo' = [spo EXCEPT ![k] = sprout_forget(spo[k])]
            /\ lent' = [lent EXCEPT ![k] = FALSE]
            /\ last' = Op("sprout", k, "ok")
            /\ ty' = [ty EXCEPT ![k] = ResourceOf(@)]
            /\ UNCHANGED halted
       ELSE /\ halted' \in BOOLEAN
            /\ last' = Op("sprout", k, "panic")
            /\ UNCHANGED <<res, spo, lent, ty>>
    /\ UNCHANGED <<shared, muts, current, freed, born, detached>>
    /\ UNCHANGED <<thread, detachedOn>>

\* ContextSpore::sprout(self, ctx: &Ctx) -> Self::Resource<'_>
\* On a mismatch assert_eq! panics while `self` is still owned by sprout, so
\* unwinding drops the spore, whose drop panics again: the process aborts.
Sprout(k) ==
    /\ ~halted
    /\ spo[k].live
    /\ by_value(k)
    /\ IF assert_eq_ctx(spo[k], current)
       THEN /\ res' = [res EXCEPT ![k] = sprout_ans(spo[k], current)]
            /\ spo' = [spo EXCEPT ![k] = sprout_forget(spo[k])]
            /\ lent' = [lent EXCEPT ![k] = FALSE]
            /\ last' = Op("sprout", k, "ok")
            /\ ty' = [ty EXCEPT ![k] = ResourceOf(@)]
            /\ UNCHANGED halted
       ELSE /\ halted' = TRUE
            /\ last' = Op("sprout", k, "panic")
            /\ UNCHANGED <<res, spo, lent, ty>>
    /\ UNCHANGED <<shared, muts, current, freed, born, detached>>
    /\ UNCHANGED <<thread, detachedOn>>

\* ContextSpore::sprout_ref(&'ctx self, ctx: &'ctx Ctx) -> &Self::Resource<'_>
\* On a mismatch assert_eq! panics; the spore stays with its owner, and the
\* panic either ends the process or is contained (another thread, a catch).
SproutRef(k) ==
    /\ ~halted
    /\ spo[k].live
    /\ by_ref(k)
    /\ shared[k] < MaxShared
    /\ IF assert_eq_ctx(spo[k], current)
       THEN /\ shared' = [shared EXCEPT ![k] = @ + 1]
            /\ lent' = [lent EXCEPT ![k] = TRUE]
            /\ last' = Op("sprout_ref", k, "ok")
            /\ UNCHANGED halted
       ELSE /\ halted' \in BOOLEAN
            /\ last' = Op("sprout_ref", k, "panic")
            /\ UNCHANGED <<shared, lent>>
    /\ UNCHANGED <<res, spo, muts, current, freed, born, detached>>
    /\ UNCHANGED <<thread, detachedOn, ty>>

\* Variant: sprout_mut moves the container out of the spore, as sprout does.
SproutMut_consuming(k) ==
    /\ ~halted
    /\ spo[k].live
    /\ by_mut(k)
    /\ IF assert_eq_ctx(spo[k], current)
       THEN /\ muts' = [muts EXCEPT ![k] = @ + 1]
            /\ lent' = [lent EXCEPT ![k] = TRUE]
            /\ spo' = [spo EXCEPT ![k] = NoSpore]
            /\ last' = Op("sprout_mut", k, "ok")
            /\ UNCHANGED halted
       ELSE /\ halted' \in BOOLEAN
            /\ last' = Op("sprout_mut", k, "panic")
            /\ UNCHANGED <<muts, lent, spo>>
    /\ UNCHANGED <<res, shared, current, freed, born, detached>>
    /\ UNCHANGED <<thread, detachedOn, ty>>

\* ContextSpore::sprout_mut(&'ctx mut self, ctx: &'ctx Ctx) -> &mut Self::Resource<'_>
SproutMut(k) ==
    /\ ~halted
    /\ spo[k].live
    /\ by_mut(k)
    /\ IF assert_eq_ctx(spo[k], current)
       THEN /\ muts' = [muts EXCEPT ![k] = @ + 1]
            /\ lent' = [lent EXCEPT ![k] = TRUE]
            /\ last' = Op("sprout_mut", k, "ok")
            /\ UNCHANGED halted
       ELSE /\ halted' \in BOOLEAN
            /\ last' = Op("sprout_mut", k, "panic")
            /\ UNCHANGED <<muts, lent>>
    /\ UNCHANGED <<res, spo, shared, current, freed, born, detached>>
    /\ UNCHANGED <<thread, detachedOn, ty>>

\* The lifetime 'ctx of a view returned by sprout_ref ends.
EndRef(k) ==
    /\ ~halted
    /\ shared[k] > 0
    /\ shared' = [shared EXCEPT ![k] = @ - 1]
    /\ last' = Op("end_ref", k, "ok")
    /\ UNCHANGED <<res, spo, muts, current, halted, freed, born, detached, lent>>
    /\ UNCHANGED <<thread, detachedOn, ty>>

\* The lifetime 'ctx of a view returned by sprout_mut ends.
EndMut(k) ==
    /\ ~halted
    /\ muts[k] > 0
    /\ muts' = [muts EXCEPT ![k] = @ - 1]
    /\ last' = Op("end_mut", k, "ok")
    /\ UNCHANGED <<res, spo, shared, current, halted, freed, born, detached, lent>>
    /\ UNCHANGED <<thread, detachedOn, ty>>

\* Variant: the spore's drop releases the native handle, as an ordinary
\* owning wrapper would.
DropSpore_releasing(k) ==
    /\ ~halted
    /\ spo[k].live
    /\ by_value(k)
    /\ last' = Op("drop_spore", k, "ok")
    /\ freed' = freed \cup {spo[k].raw.rss}
    /\ spo' = [spo EXCEPT ![k] = NoSpore]
    /\ lent' = [lent EXCEPT ![k] = FALSE]
    /\ UNCHANGED <<res, shared, muts, current, halted, born, detached>>
    /\ UNCHANGED <<thread, detachedOn, ty>>

\* A spore goes out of scope: Drop::drop of spore_convention! runs.  The
\* panic either ends the process or is contained, and then the value is gone
\* without its handle having been released.
DropSpore(k) ==
    /\ ~halted
    /\ spo[k].live
    /\ by_value(k)
    /\ last' = Op("drop_spore", k, spore_drop)
    /\ IF spore_drop = "panic"
       THEN halted' \in BOOLEAN
       ELSE UNCHANGED halted
    /\ spo' = [spo EXCEPT ![k] = IF halted' THEN @ ELSE NoSpore]
    /\ lent' = [lent EXCEPT ![k] = FALSE]
    /\ UNCHANGED <<res, shared, muts, current, freed, born, detached>>
    /\ UNCHANGED <<thread, detachedOn, ty>>

\* A bound resource goes out of scope: the resource kind's own release
\* returns the native handle to the context.
DropResource(k) ==
    /\ ~halted
    /\ res[k].live
    /\ freed' = freed \cup {res[k].raw.rss}
    /\ res' = [res EXCEPT ![k] = NoResource]
    /\ last' = Op("drop_resource", k, "ok")
    /\ UNCHANGED <<spo, shared, muts, current, halted, born, detached, lent>>
    /\ UNCHANGED <<thread, detachedOn, ty>>

\* unsafe impl Send for $spore: a spore nobody borrows is moved to another
\* thread.
MoveSpore(k, t) ==
    /\ ~halted
    /\ spo[k].live
    /\ by_value(k)
    /\ t # thread[k]
    /\ thread' = [thread EXCEPT ![k] = t]
    /\ last' = Op("move", k, "ok")
    /\ UNCHANGED <<res, spo, shared, muts, current, halted, freed, born, detached,
                   lent, detachedOn, ty>>

\* The caller switches to another context object.
SwitchContext(c) ==
    /\ ~halted
    /\ c # current
    /\ current' = c
    /\ last' = Op("switch", 0, "ok")
    /\ UNCHANGED <<res, spo, shared, muts, halted, freed, born, detached, lent>>
    /\ UNCHANGED <<thread, detachedOn, ty>>

Next ==
    \/ \E k \in Keys : Sporulate(k)
    \/ \E k \in Keys : Sprout(k)
    \/ \E k \in Keys : SproutRef(k)
    \/ \E k \in Keys : SproutMut(k)
    \/ \E k \in Keys : EndRef(k)
    \/ \E k \in Keys : EndMut(k)
    \/ \E k \in Keys : DropSpore(k)
    \/ \E k \in Keys : DropResource(k)
    \/ \E k \in Keys, t \in Threads : MoveSpore(k, t)
    \/ \E c \in CtxObj : SwitchContext(c)

Spec == Init /\ [][Next]_vars

\* ----------------------------------------------------------------- claims
Reattach == {"sprout", "sprout_ref", "sprout_mut"}

\* C1: round trip.  When sprout has just run on the spore of a sporulated
\* resource r, through a context whose identity r's container holds, it
\* succeeded and the bound resource it returned has r's native handle.
C1_RoundTrip ==
    \A k \in Keys :
        (/\ last.op = "sprout"
         /\ last.k = k
         /\ detached[k].live
         /\ detached[k].raw.ctx = as_raw(current))
        => (/\ last.outcome = "ok"
            /\ res[k].live
            /\ res[k].raw.rss = detached[k].raw.rss)

C1_Witness ==
    \E k \in Keys :
        /\ last = Op("sprout", k, "ok")
        /\ detached[k].live
        /\ res[k].live
        /\ res[k].raw.rss = detached[k].raw.rss

\* C2: context mismatch is fatal in every reattach form.  A step of sprout,
\* sprout_ref or sprout_mut on a spore whose captured identity differs from
\* the identity of the supplied context ends in a panic, and produces no
\* bound resource and no view of one.
C2_MismatchFatal ==
    [][\A k \in Keys :
          (/\ spo[k].live
           /\ spo[k].raw.ctx # as_raw(current)
           /\ (Sprout(k) \/ SproutRef(k) \/ SproutMut(k)))
          => (/\ last'.outcome = "panic"
              /\ res' = res
              /\ shared' = shared
              /\ muts' = muts)]_vars

C2_Witness ==
    \E k \in Keys :
        /\ last = Op("sprout_mut", k, "panic")
        /\ spo[k].live
        /\ spo[k].raw.ctx # as_raw(current)
        /\ muts[k] = 0
        /\ ~res[k].live

\* C3: fatal-drop guard.  Whenever a still-detached spore has just been
\* dropped, its drop panicked; it never completed as an ordinary drop.
C3_FatalDrop ==
    \A k \in Keys :
        (last.op = "drop_spore" /\ last.k = k) => last.outcome = "panic"

C3_Witness ==
    \E k \in Keys :
        /\ last = Op("drop_spore", k, "panic")
        /\ detached[k].live
        /\ ~res[k].live

\* C4: identity equality governs reattachment.  The outcome of every
\* reattach form is decided by the two identity values alone: it succeeds
\* exactly when the identity captured at detachment equals the identity of
\* the supplied context, whichever context object supplies it.
C4_IdentityGoverns ==
    \A k \in Keys :
        (last.op \in Reattach /\ last.k = k)
        => (last.outcome = "ok" <=> detached[k].raw.ctx = as_raw(current))

\* The resource was detached while bound through one context object and is
\* now bound through a different object of the same identity.
C4_Witness ==
    \E k \in Keys :
        /\ last = Op("sprout", k, "ok")
        /\ res[k].live
        /\ detached[k].live
        /\ res[k].via # detached[k].via
        /\ as_raw(res[k].via) = as_raw(detached[k].via)

\* The owning values that hold native handle h.
Owners(h) ==
    {<<"resource", k>> : k \in {j \in Keys : res[j].live /\ res[j].raw.rss = h}}
    \cup {<<"spore", k>> : k \in {j \in Keys : spo[j].live /\ spo[j].raw.rss = h}}

\* C5: single owner.  Every native handle is held by at most one owning
\* value, bound or detached, never by a live resource and a live spore at
\* the same time.
C5_SingleOwner ==
    \A k \in Keys : Cardinality(Owners(born[k].rss)) <= 1

C5_Witness ==
    \E k \in Keys :
        /\ detached[k].live
        /\ spo[k].live
        /\ ~res[k].live
        /\ Owners(born[k].rss) = {<<"spore", k>>}

\* C6: detach consumes its argument.  A sporulate step leaves no bound
\* value, so no further sporulate can run on the resource until a successful
\* consuming sprout has produced a new bound value; a successful consuming
\* sprout leaves no spore, so it cannot be sprouted again until the next
\* sporulate.
C6_Consumes ==
    [][\A k \in Keys :
          /\ Sporulate(k) => ~res'[k].live
          /\ ~res[k].live => ~Sporulate(k)
          /\ (~res[k].live /\ res'[k].live) => last' = Op("sprout", k, "ok")
          /\ (Sprout(k) /\ last'.outcome = "ok") => ~spo'[k].live
          /\ ~spo[k].live => ~(Sprout(k) \/ SproutRef(k) \/ SproutMut(k))
          /\ (~spo[k].live /\ spo'[k].live) => last' = Op("sporulate", k, "ok")]_vars

\* A sporulate has just run: the bound value is gone and the spore is live.
C6_Witness ==
    \E k \in Keys :
        /\ last = Op("sporulate", k, "ok")
        /\ res[k] = NoResource
        /\ spo[k].live
        /\ spo[k].raw.rss = detached[k].raw.rss

\* C7: detach is total.  While the process runs, sporulate is enabled on
\* every bound resource whichever context is current, and a sporulate that
\* has just run returned a live spore without a panic.
C7_DetachTotal ==
    \A k \in Keys :
        /\ (~halted /\ res[k].live) => ENABLED Sporulate(k)
        /\ (last.op = "sporulate" /\ last.k = k)
           => (last.outcome = "ok" /\ ~halted /\ spo[k].live)

\* A resource has just been detached while a context of another identity
\* was the current one.
C7_Witness ==
    \E k \in Keys :
        /\ last = Op("sporulate", k, "ok")
        /\ spo[k].live
        /\ spo[k].raw.ctx # as_raw(current)

\* C8: the carrier is constant.  Every live value of a resource, bound or
\* detached, holds the container the resource was created with, and the
\* identity inside a spore is the one the resource carried when it was
\* detached.
C8_CarrierConstant ==
    \A k \in Keys :
        /\ res[k].live => res[k].raw = born[k]
        /\ spo[k].live => (/\ spo[k].raw = born[k]
                           /\ spo[k].raw.ctx = detached[k].raw.ctx)

C8_Witness ==
    \E k \in Keys :
        /\ spo[k].live
        /\ shared[k] > 0
        /\ spo[k].raw = born[k]
        /\ detached[k].raw = born[k]

\* C9: a borrowing reattach does not consume the spore.  A spore that has
\* lent a view through a matching sprout_ref or sprout_mut is still a live
\* spore with the container it was detached with, and once no view is
\* outstanding it can again be sprouted by value, by shared or by exclusive
\* borrow, and dropping it still runs the panicking drop.
C9_BorrowKeepsSpore ==
    \A k \in Keys :
        lent[k] =>
            /\ spo[k].live
            /\ ~res[k].live
            /\ spo[k].raw = detached[k].raw
            /\ (~halted /\ shared[k] = 0 /\ muts[k] = 0)
               => (/\ ENABLED Sprout(k)
                   /\ ENABLED SproutRef(k)
                   /\ ENABLED SproutMut(k)
                   /\ ENABLED DropSpore(k))

\* An exclusive view has been lent and has ended.
C9_Witness ==
    \E k \in Keys :
        /\ last = Op("end_mut", k, "ok")
        /\ lent[k]
        /\ spo[k].live
        /\ shared[k] = 0
        /\ muts[k] = 0

\* C10: borrow exclusion.  Shared views of one spore may coexist, up to the
\* model's bound a further sprout_ref is always possible; at most one
\* exclusive view exists, and while it does there is no shared view and no
\* sprout_ref, sprout_mut or consuming sprout of that spore can start; while
\* a shared view exists no sprout_mut and no consuming sprout can start.
C10_BorrowExclusion ==
    \A k \in Keys :
        /\ muts[k] <= 1
        /\ muts[k] = 1 => (/\ shared[k] = 0
                           /\ ~ENABLED SproutRef(k)
                           /\ ~ENABLED SproutMut(k)
                           /\ ~ENABLED Sprout(k))
        /\ shared[k] > 0 => (/\ ~ENABLED SproutMut(k)
                             /\ ~ENABLED Sprout(k))
        /\ (~halted /\ spo[k].live /\ shared[k] > 0 /\ shared[k] < MaxShared)
           => ENABLED SproutRef(k)

\* Two shared views of one spore are outstanding at once.
C10_Witness ==
    \E k \in Keys :
        /\ spo[k].live
        /\ shared[k] >= 2
        /\ muts[k] = 0

\* C11: cross-thread transfer.  A reattach that has just run on a thread
\* other than the one the spore was detached on succeeded exactly when the
\* captured identity equals the identity of the supplied context, and a
\* successful consuming sprout there returned the native handle of the
\* resource that was detached.
C11_CrossThread ==
    \A k \in Keys :
        (last.op \in Reattach /\ last.k = k /\ thread[k] # detachedOn[k])
        => /\ last.outcome = "ok" <=> detached[k].raw.ctx = as_raw(current)
           /\ last = Op("sprout", k, "ok")
              => (res[k].live /\ res[k].raw.rss = detached[k].raw.rss)

\* A spore detached on one thread is now a bound resource on the other.
C11_Witness ==
    \E k \in Keys :
        /\ last = Op("sprout", k, "ok")
        /\ thread[k] # detachedOn[k]
        /\ res[k].live
        /\ res[k].raw.rss = detached[k].raw.rss

\* The operations that can act on a spore: the three reattach forms, a move
\* to another thread, the end of a view it lent, and its panicking drop.
SporeOps == {"sprout", "sprout_ref", "sprout_mut", "move", "end_ref", "end_mut",
             "drop_spore"}

\* C12: release boundary.  A native handle enters the freed set only in a
\* step that starts with the handle held by a live bound resource and no
\* spore; a step that starts with the handle detached never frees anything
\* and, when it acts on that resource, is one of the spore operations.
C12_ReleaseBoundary ==
    [][\A k \in Keys :
          /\ (born[k].rss \in freed' /\ born[k].rss \notin freed)
             => (/\ res[k].live
                 /\ res[k].raw.rss = born[k].rss
                 /\ ~spo[k].live)
          /\ spo[k].live
             => (/\ born[k].rss \in freed' <=> born[k].rss \in freed
                 /\ last'.k = k => last'.op \in SporeOps)]_vars

\* A resource that was detached and reattached has been released from the
\* bound state.
C12_Witness ==
    \E k \in Keys :
        /\ last = Op("drop_resource", k, "ok")
        /\ detached[k].live
        /\ born[k].rss \in freed
        /\ ~spo[k].live

\* C13: dies exactly once.  A release never releases a handle that has been
\* released before, and a released handle has no live value afterwards; a
\* bound value ends only by the scoped release or by being detached into a
\* live spore; a spore ends only by being consumed into a live bound
\* resource, or in a drop that panics, never in a drop that completes.
C13_DiesOnce ==
    [][\A k \in Keys :
          /\ DropResource(k) => born[k].rss \notin freed
          /\ born[k].rss \in freed => (~res'[k].live /\ ~spo'[k].live)
          /\ (res[k].live /\ ~res'[k].live)
             => \/ last' = Op("drop_resource", k, "ok") /\ born[k].rss \in freed'
                \/ last' = Op("sporulate", k, "ok") /\ spo'[k].live
          /\ (spo[k].live /\ ~spo'[k].live)
             => \/ last' = Op("sprout", k, "ok") /\ res'[k].live
                \/ last' = Op("drop_spore", k, "panic")]_vars

\* A released resource stays dead while the program goes on.
C13_Witness ==
    \E k \in Keys :
        /\ born[k].rss \in freed
        /\ ~res[k].live
        /\ ~spo[k].live
        /\ last.op = "switch"

\* C14: no stale identity check.  A reattach step reads and compares the
\* identity within the one step, during which the supplied context does not
\* change, and it succeeds only if the captured identity equals the identity
\* that context has when the step ends.
C14_NoStaleCheck ==
    [][\A k \in Keys :
          (Sprout(k) \/ SproutRef(k) \/ SproutMut(k))
          => (/\ current' = current
              /\ last'.outcome = "ok" => spo[k].raw.ctx = as_raw(current'))]_vars

\* A borrow has just succeeded through a context object other than the one
\* the resource was bound through when it was detached.
C14_Witness ==
    \E k \in Keys :
        /\ last = Op("sprout_ref", k, "ok")
        /\ spo[k].live
        /\ current # detached[k].via
        /\ spo[k].raw.ctx = as_raw(current)

\* Some operation acts on resource k.
OnHandle(k) ==
    \/ Sporulate(k)
    \/ Sprout(k)
    \/ SproutRef(k)
    \/ SproutMut(k)
    \/ EndRef(k)
    \/ EndMut(k)
    \/ DropSpore(k)
    \/ DropResource(k)
    \/ \E t \in Threads : MoveSpore(k, t)

\* C15 as stated: once a fatal condition has been detected on a resource,
\* no operation can proceed on it any more.
C15_Original ==
    \A k \in Keys :
        (last.outcome = "panic" /\ last.k = k) => ~ENABLED OnHandle(k)

\* C15, amended: a fatal condition ends the offending operation, which
\* returns no resource; it arises only in a reattach or in a spore drop.  A
\* halted process does nothing more, and a mismatch in the consuming sprout
\* always halts it.  After a spore drop the process has halted or the spore
\* is gone and nothing can act on the resource.  After a mismatch in
\* sprout_ref or sprout_mut the process may go on, and then the spore is
\* live with the container it was detached with.
C15_FatalTerminal ==
    /\ halted => ~ENABLED Next
    /\ \A k \in Keys :
          (last.outcome = "panic" /\ last.k = k)
          => /\ last.op \in Reattach \cup {"drop_spore"}
             /\ ~res[k].live
             /\ last.op = "sprout" => halted
             /\ (last.op = "drop_spore" /\ ~halted)
                => (~spo[k].live /\ ~ENABLED OnHandle(k))
             /\ (last.op \in {"sprout_ref", "sprout_mut"} /\ ~halted)
                => (spo[k].live /\ spo[k].raw = detached[k].raw)

\* The panic of a spore drop was contained: the process runs on without
\* the spore.
C15_Witness ==
    \E k \in Keys :
        /\ last = Op("drop_spore", k, "panic")
        /\ ~halted
        /\ ~spo[k].live
        /\ born[k].rss \notin freed

\* C16: the pairing preserves the kind.  The type of every live bound value
\* is the resource type of the kind the resource was created as, the type of
\* every live spore is the spore type of that kind, and each names the other
\* back as its counterpart.
C16_KindPreserved ==
    \A k \in Keys :
        /\ res[k].live => (/\ ty[k] = ResourceType(KindOf(k))
                           /\ ResourceOf(SporeOf(ty[k])) = ty[k])
        /\ spo[k].live => (/\ ty[k] = SporeType(KindOf(k))
                           /\ SporeOf(ResourceOf(ty[k])) = ty[k])

\* A resource is bound again, as its own kind, after a detach and a reattach.
C16_Witness ==
    \E k \in Keys :
        /\ res[k].live
        /\ detached[k].live
        /\ ty[k] = ResourceType(KindOf(k))
        /\ last.op = "sprout"

\* C17: the transitions run no destructor.  A sporulate step releases
\* nothing and does not panic, and leaves the container in the spore with
\* the bound cell emptied; a consuming sprout whose check passes does not
\* panic and releases nothing, and leaves the container in the bound
\* resource with the spore cell emptied.
C17_NoDestructor ==
    [][\A k \in Keys :
          /\ Sporulate(k)
             => (/\ freed' = freed
                 /\ halted' = halted
                 /\ last'.outcome = "ok"
                 /\ spo'[k].raw = res[k].raw
                 /\ res'[k] = NoResource)
          /\ (Sprout(k) /\ spo[k].raw.ctx = as_raw(current))
             => (/\ freed' = freed
                 /\ halted' = halted
                 /\ last'.outcome = "ok"
                 /\ res'[k].raw = spo[k].raw
                 /\ spo'[k] = NoSpore)]_vars

\* A consuming sprout has just succeeded: nothing panicked, nothing was
\* released, and the spore cell is empty.
C17_Witness ==
    \E k \in Keys :
        /\ last = Op("sprout", k, "ok")
        /\ ~halted
        /\ spo[k] = NoSpore
        /\ res[k].live
        /\ res[k].raw.rss \notin freed

\* C18: state unchanged on mismatch.  A reattach step of any form whose
\* identity check fails leaves the spore as it was, container and type,
\* releases nothing and leaves the bound cell as it was: the check comes
\* before any move or reinterpretation.
C18_MismatchNoChange ==
    [][\A k \in Keys :
          (/\ spo[k].live
           /\ spo[k].raw.ctx # as_raw(current)
           /\ (Sprout(k) \/ SproutRef(k) \/ SproutMut(k)))
          => (/\ spo'[k] = spo[k]
              /\ ty'[k] = ty[k]
              /\ freed' = freed)]_vars

\* A consuming sprout has just failed its check: the spore still holds the
\* container the resource was created with, and nothing was released.
C18_Witness ==
    \E k \in Keys :
        /\ last = Op("sprout", k, "panic")
        /\ spo[k].live
        /\ spo[k].raw = born[k]
        /\ ty[k] = SporeType(KindOf(k))
        /\ freed = {}

====
